---- MODULE Spec2Model ----
(***************************************************************************)
(* Order lifecycle of thash-ai/auto-trader:                                *)
(*   src/src/auto_trader/modeling/order.py  (PositionType, Order,          *)
(*   OrderSimulator.step, OrderSimulator.export_results).                  *)
(*                                                                         *)
(* An Optional[T] of the source is modelled as a set with at most one      *)
(* element: None is {} and a present value v is {v}.  Python object        *)
(* identity of an Order is the field id (its creation number).             *)
(* A datetime is a record [month, day, hour] of one year; rates are        *)
(* integers (the source compares and subtracts them, nothing else).        *)
(***************************************************************************)
EXTENDS Integers, Sequences, FiniteSets

\* ------------------------------------------------------------------ bounds
MaxRate == 1          \* rates are 0..MaxRate
MaxCalls == 2         \* step calls of a run whose timestamps come in any order

Rates == 0 .. MaxRate

\* datetime(month, day, hour) of one year
Dt(m, d, h) == [month |-> m, day |-> d, hour |-> h]

\* the timestamps a caller passes: 24 December before, inside and after the
\* trading hours, 25 December and 25 November inside the trading hours
Datetimes ==
    {Dt(11, 25, 1), Dt(12, 24, 0), Dt(12, 24, 1),
     Dt(12, 24, 2), Dt(12, 24, 3), Dt(12, 25, 1)}

\* constructor arguments <<start_hour, end_hour, thresh_losscut>> of the runs
Configs == {<<1, 3, 1>>}

\* ------------------------------------------------------------ Optional[T]
None == {}
Some(v) == {v}
Get(opt) == CHOOSE v \in opt : TRUE

\* datetime's total order (same year): the key of dt
DtKey(dt) == (dt.month * 32 + dt.day) * 24 + dt.hour
Before(a, b) == DtKey(a) < DtKey(b)

\* ---------------------------------------------------------------- state
VARIABLES
    start_hour,      \* OrderSimulator.start_hour
    end_hour,        \* OrderSimulator.end_hour
    thresh_losscut,  \* OrderSimulator.thresh_losscut
    open_position,   \* OrderSimulator.open_position : Optional[Order]
    order_history,   \* OrderSimulator.order_history : list[Order]
    next_id,         \* number of Order objects constructed so far
    call,            \* the most recent call: its name and arguments
    pre,             \* the simulator's state when that call began
    returned,        \* what that call returned (None for step)
    raised,          \* the exception that call ended with ("none": it returned)
    last_dt,         \* dt of the most recent step call
    nsteps,          \* step calls counted against MaxCalls
    target,          \* the Order a caller holds and calls exit / gain on
    argv,            \* the flags of the most recent step call as the caller
                     \* wrote them, when it passed them by position
    det,             \* a call of the Extremum Detector: arguments and scan state
    lab,             \* a call of a Signal Generator: arguments and result
    ldr              \* a generator made by CNNDataset.create_loader, and its
                     \* consumer's record of what it yielded

vars == <<start_hour, end_hour, thresh_losscut, open_position, order_history,
          next_id, call, pre, returned, raised, last_dt, nsteps, target, argv,
          det, lab, ldr>>

\* the variables the OrderSimulator's calls leave alone
aux == <<target, det, lab, ldr>>

\* the variables of the calls of the pure functions
fn_vars == <<det, lab, ldr>>

\* no call of the Extremum Detector, of a Signal Generator
DetIdle == [status |-> "idle"]
LabIdle == [status |-> "idle"]

\* no loader
LdrIdle == [status |-> "idle"]

\* PositionType
LONG == "long"
SHORT == "short"

\* Order.__init__
Order(id, position_type, entry_time, entry_rate) ==
    [id |-> id,
     position_type |-> position_type,
     entry_time |-> entry_time,
     entry_rate |-> entry_rate,
     exit_time |-> None,
     exit_rate |-> None]

\* Order.exit
OrderExit(order, exit_time, exit_rate) ==
    [order EXCEPT !.exit_time = Some(exit_time), !.exit_rate = Some(exit_rate)]

\* Order.gain: the assert of its first line
GainDefined(order) == order.exit_rate # None

\* gain without the branch on position_type
GainIgnoringDirection(order) ==
    Get(order.exit_rate) - order.entry_rate

\* Order.gain: the value it returns when the assert passes
Gain(order) ==
    LET rate_diff == Get(order.exit_rate) - order.entry_rate
    IN  IF order.position_type = LONG THEN rate_diff ELSE 0 - rate_diff

\* is_open without the calendar exclusion
IsOpenWithoutHoliday(dt) ==
    start_hour <= dt.hour /\ dt.hour < end_hour

\* is_open taking start_hour >= end_hour as a window over midnight
IsOpenOverMidnight(dt) ==
    (IF start_hour < end_hour
     THEN start_hour <= dt.hour /\ dt.hour < end_hour
     ELSE start_hour <= dt.hour \/ dt.hour < end_hour)
    /\ <<dt.month, dt.day>> # <<12, 25>>

\* OrderSimulator.step: is_open
IsOpen(dt) ==
    (start_hour <= dt.hour /\ dt.hour < end_hour)
    /\ <<dt.month, dt.day>> # <<12, 25>>

\* the LONG loss-cut with > in place of >=
LongExitCondStrict(pos, is_open, rate, long_exit) ==
    /\ pos # None
    /\ Get(pos).position_type = LONG
    /\ (~is_open \/ long_exit \/ Get(pos).entry_rate - rate > thresh_losscut)

\* OrderSimulator.step: first disjunct of the exit condition
LongExitCond(pos, is_open, rate, long_exit) ==
    /\ pos # None
    /\ Get(pos).position_type = LONG
    /\ (~is_open \/ long_exit \/ Get(pos).entry_rate - rate >= thresh_losscut)

\* the SHORT exit without the trading-hours clause
ShortExitCondIgnoresWindow(pos, is_open, rate, short_exit) ==
    /\ pos # None
    /\ Get(pos).position_type = SHORT
    /\ (short_exit \/ rate - Get(pos).entry_rate >= thresh_losscut)

\* the SHORT exit without the loss-cut clause
ShortExitCondNoLossCut(pos, is_open, rate, short_exit) ==
    /\ pos # None
    /\ Get(pos).position_type = SHORT
    /\ (~is_open \/ short_exit)

\* OrderSimulator.step: second disjunct of the exit condition
ShortExitCond(pos, is_open, rate, short_exit) ==
    /\ pos # None
    /\ Get(pos).position_type = SHORT
    /\ (~is_open \/ short_exit \/ rate - Get(pos).entry_rate >= thresh_losscut)

\* the exit condition with each direction reading the other direction's flag
ExitCondCrossedFlags(pos, is_open, rate, long_exit, short_exit) ==
    LongExitCond(pos, is_open, rate, short_exit)
    \/ ShortExitCond(pos, is_open, rate, long_exit)

\* OrderSimulator.step: the exit condition
ExitCond(pos, is_open, rate, long_exit, short_exit) ==
    LongExitCond(pos, is_open, rate, long_exit)
    \/ ShortExitCond(pos, is_open, rate, short_exit)

\* the exit block without its last line, open_position = None
ExitBlockKeepsPosition(pos, history, dt, rate) ==
    <<Some(OrderExit(Get(pos), dt, rate)),
      Append(history, OrderExit(Get(pos), dt, rate))>>

\* the exit block inserting at the head of the history
ExitBlockPrepends(pos, history, dt, rate) ==
    <<None, <<OrderExit(Get(pos), dt, rate)>> \o history>>

\* the exit block recording a loss-cut exit at the loss-cut level, not at
\* the price of the call
ExitBlockCapsLoss(pos, history, dt, rate) ==
    LET o == Get(pos)
        capped == IF o.position_type = LONG
                  THEN (IF o.entry_rate - rate > thresh_losscut
                        THEN o.entry_rate - thresh_losscut ELSE rate)
                  ELSE (IF rate - o.entry_rate > thresh_losscut
                        THEN o.entry_rate + thresh_losscut ELSE rate)
    IN  <<None, Append(history, OrderExit(o, dt, capped))>>

\* the exit block calling exit() on every Order of the history as well
ExitBlockRestampsHistory(pos, history, dt, rate) ==
    <<None,
      Append([i \in 1 .. Len(history) |-> OrderExit(history[i], dt, rate)],
             OrderExit(Get(pos), dt, rate))>>

\* OrderSimulator.step, lines 98-100: the body of the exit block, as
\* <<open_position, order_history>>.  The Order appended is the object that was
\* open, mutated by exit()
ExitBlock(pos, history, dt, rate) ==
    <<None, Append(history, OrderExit(Get(pos), dt, rate))>>

\* the entry block testing short_entry first
EntryBlockShortFirst(pos, is_open, dt, rate, long_entry, short_entry, id) ==
    IF is_open /\ pos = None
    THEN IF short_entry THEN Some(Order(id, SHORT, dt, rate))
         ELSE IF long_entry THEN Some(Order(id, LONG, dt, rate))
         ELSE pos
    ELSE pos

\* OrderSimulator.step, lines 103-107: the entry block; pos is open_position
\* after the exit block, id the identity of the Order it may construct
EntryBlock(pos, is_open, dt, rate, long_entry, short_entry, id) ==
    IF is_open /\ pos = None
    THEN IF long_entry THEN Some(Order(id, LONG, dt, rate))
         ELSE IF short_entry THEN Some(Order(id, SHORT, dt, rate))
         ELSE pos
    ELSE pos

\* step with the entry block placed before the exit block
StepEffectEntryFirst(pos, history, dt, rate, long_entry, long_exit, short_entry, short_exit, id) ==
    LET is_open == IsOpen(dt)
        entered == EntryBlock(pos, is_open, dt, rate, long_entry, short_entry, id)
    IN  IF ExitCond(entered, is_open, rate, long_exit, short_exit)
        THEN ExitBlock(entered, history, dt, rate)
        ELSE <<entered, history>>

\* step returning after the exit block, the entry block left to the next call
StepEffectNoReentry(pos, history, dt, rate, long_entry, long_exit, short_entry, short_exit, id) ==
    LET is_open == IsOpen(dt)
    IN  IF ExitCond(pos, is_open, rate, long_exit, short_exit)
        THEN ExitBlock(pos, history, dt, rate)
        ELSE <<EntryBlock(pos, is_open, dt, rate, long_entry, short_entry, id),
               history>>

\* OrderSimulator.step: <<open_position, order_history>> when it returns
StepEffect(pos, history, dt, rate, long_entry, long_exit, short_entry, short_exit, id) ==
    LET is_open == IsOpen(dt)
        exited == IF ExitCond(pos, is_open, rate, long_exit, short_exit)
                  THEN ExitBlock(pos, history, dt, rate)
                  ELSE <<pos, history>>
    IN  <<EntryBlock(exited[1], is_open, dt, rate, long_entry, short_entry, id),
          exited[2]>>

\* step rejecting a dt that is not after the previous call's
StepRaisesOnOutOfOrder(prev_dt, dt) ==
    IF \E t \in prev_dt : ~Before(t, dt) THEN "NonMonotonicTimestamp" ELSE "none"

\* OrderSimulator.step raises nothing of its own: no statement of it compares
\* dt with the dt of the previous call (prev_dt)
StepRaises(prev_dt, dt) == "none"

\* the record of a call: its name and arguments
StepCall(dt, rate, long_entry, long_exit, short_entry, short_exit) ==
    [name |-> "step", dt |-> Some(dt), rate |-> rate,
     long_entry |-> long_entry, long_exit |-> long_exit,
     short_entry |-> short_entry, short_exit |-> short_exit]

NoCall ==
    [name |-> "init", dt |-> None, rate |-> 0,
     long_entry |-> FALSE, long_exit |-> FALSE,
     short_entry |-> FALSE, short_exit |-> FALSE]

ExportCall == [NoCall EXCEPT !.name = "export_results"]

\* the simulator's state when a call begins
Entering ==
    [open_position |-> open_position,
     order_history |-> order_history,
     last_dt |-> last_dt]

\* OrderSimulator.__init__ with constructor arguments out of configs
SimInitFrom(configs) ==
    /\ \E c \in configs :
        /\ start_hour = c[1]
        /\ end_hour = c[2]
        /\ thresh_losscut = c[3]
    /\ open_position = None
    /\ order_history = <<>>
    /\ next_id = 0
    /\ last_dt = None
    /\ call = NoCall
    /\ pre = [open_position |-> None, order_history |-> <<>>, last_dt |-> None]
    /\ returned = None
    /\ raised = "none"
    /\ nsteps = 0

\* OrderSimulator.__init__
SimInit == SimInitFrom(Configs)

\* a fresh simulator and nothing else
Init ==
    /\ SimInit
    /\ target = None
    /\ argv = <<>>
    /\ det = DetIdle
    /\ lab = LabIdle
    /\ ldr = LdrIdle

\* OrderSimulator.step, the whole call
StepBody(dt, rate, long_entry, long_exit, short_entry, short_exit) ==
    LET err == StepRaises(last_dt, dt)
        eff == StepEffect(open_position, order_history, dt, rate,
                          long_entry, long_exit, short_entry, short_exit, next_id + 1)
        constructed == \E o \in eff[1] : o.id = next_id + 1
    IN  /\ call' = StepCall(dt, rate, long_entry, long_exit, short_entry, short_exit)
        /\ pre' = Entering
        /\ last_dt' = Some(dt)
        /\ returned' = None
        /\ raised' = err
        /\ IF err = "none"
           THEN /\ open_position' = eff[1]
                /\ order_history' = eff[2]
                /\ next_id' = IF constructed THEN next_id + 1 ELSE next_id
           ELSE UNCHANGED <<open_position, order_history, next_id>>
        /\ UNCHANGED <<start_hour, end_hour, thresh_losscut>>
        /\ UNCHANGED aux

\* a step call of a caller that passes timestamps in any order
Step(dt, rate, long_entry, long_exit, short_entry, short_exit) ==
    /\ nsteps < MaxCalls
    /\ nsteps' = nsteps + 1
    /\ UNCHANGED argv
    /\ StepBody(dt, rate, long_entry, long_exit, short_entry, short_exit)

\* a step call of a caller that passes strictly increasing timestamps, as the
\* loop over a time index does (test_common_utils.py, lines 120-128)
StepInOrder(dt, rate, long_entry, long_exit, short_entry, short_exit) ==
    /\ \A t \in last_dt : Before(t, dt)
    /\ UNCHANGED <<nsteps, argv>>
    /\ StepBody(dt, rate, long_entry, long_exit, short_entry, short_exit)

\* one row of export_results
Row(order) ==
    [position_type |-> order.position_type,
     entry_time |-> order.entry_time,
     exit_time |-> order.exit_time,
     entry_rate |-> order.entry_rate,
     exit_rate |-> order.exit_rate,
     gain |-> Gain(order)]

\* export_results iterating over the open position too
ExportOrdersWithOpen(pos, history) ==
    IF pos = None THEN history ELSE Append(history, Get(pos))

\* OrderSimulator.export_results, line 119: the orders it iterates over
ExportOrders(pos, history) == history

\* OrderSimulator.export_results
ExportResults ==
    LET orders == ExportOrders(open_position, order_history)
    IN  /\ call.name # "export_results"
        /\ call' = ExportCall
        /\ pre' = Entering
        /\ IF \A i \in 1 .. Len(orders) : GainDefined(orders[i])
           THEN /\ returned' = Some([i \in 1 .. Len(orders) |-> Row(orders[i])])
                /\ raised' = "none"
           ELSE /\ returned' = None
                /\ raised' = "AssertionError"
        /\ UNCHANGED <<start_hour, end_hour, thresh_losscut, open_position,
                       order_history, next_id, last_dt, nsteps, argv>>
        /\ UNCHANGED aux

Next ==
    \/ \E dt \in Datetimes, rate \in Rates,
          long_entry \in BOOLEAN, long_exit \in BOOLEAN,
          short_entry \in BOOLEAN, short_exit \in BOOLEAN :
            Step(dt, rate, long_entry, long_exit, short_entry, short_exit)
    \/ ExportResults

\* runs of at most MaxCalls step calls with timestamps in any order
Spec == Init /\ [][Next]_vars

NextOrdered ==
    \/ \E dt \in Datetimes, rate \in Rates,
          long_entry \in BOOLEAN, long_exit \in BOOLEAN,
          short_entry \in BOOLEAN, short_exit \in BOOLEAN :
            StepInOrder(dt, rate, long_entry, long_exit, short_entry, short_exit)
    \/ ExportResults

\* runs whose step calls have strictly increasing timestamps
SpecOrdered == Init /\ [][NextOrdered]_vars

\* ------------------------------------------------------------------------
\* Simulators constructed with other arguments: a loss-cut threshold of 0
\* and trading hours with start_hour >= end_hour, stepped with prices far
\* enough apart for a loss beyond the threshold.

\* constructor arguments <<start_hour, end_hour, thresh_losscut>>
WideConfigs == {<<1, 3, 1>>, <<1, 3, 0>>, <<3, 1, 1>>, <<2, 2, 1>>}

\* 24 December at the hours 1, 2 and 3
WideDatetimes == {Dt(12, 24, 1), Dt(12, 24, 2), Dt(12, 24, 3)}

\* prices up to one above MaxRate
WideRates == 0 .. MaxRate + 1

InitConfigs ==
    /\ SimInitFrom(WideConfigs)
    /\ target = None
    /\ argv = <<>>
    /\ det = DetIdle
    /\ lab = LabIdle
    /\ ldr = LdrIdle

NextConfigs ==
    \E dt \in WideDatetimes, rate \in WideRates,
       long_entry \in BOOLEAN, long_exit \in BOOLEAN,
       short_entry \in BOOLEAN, short_exit \in BOOLEAN :
        Step(dt, rate, long_entry, long_exit, short_entry, short_exit)

\* runs of at most MaxCalls step calls of a simulator of any of WideConfigs
SpecConfigs == InitConfigs /\ [][NextConfigs]_vars

\* ------------------------------------------------------------------------
\* An Order of its own, as TestOrder.test_gain uses it: constructed, then
\* exit() and gain called on it.

\* the simulator's variables
sim_vars == <<start_hour, end_hour, thresh_losscut, open_position, order_history,
              next_id, pre, last_dt, nsteps, argv>>

\* reading gain with the assert removed and a missing exit_rate taken as 0
GainOutcomeUnchecked(order) ==
    [raised |-> "none",
     value |-> Some(IF order.position_type = LONG
                    THEN 0 - order.entry_rate ELSE order.entry_rate)]

\* Order.gain, the whole property: what reading it raises and returns
GainOutcome(order) ==
    IF GainDefined(order)
    THEN [raised |-> "none", value |-> Some(Gain(order))]
    ELSE [raised |-> "AssertionError", value |-> None]

\* Order(position_type, entry_time, entry_rate)
InitOrder ==
    /\ SimInit
    /\ \E position_type \in {LONG, SHORT}, entry_time \in Datetimes, entry_rate \in Rates :
        target = Some(Order(1, position_type, entry_time, entry_rate))
    /\ argv = <<>>
    /\ det = DetIdle
    /\ lab = LabIdle
    /\ ldr = LdrIdle

\* order.exit(exit_time, exit_rate)
CallExit(exit_time, exit_rate) ==
    /\ target' = {OrderExit(o, exit_time, exit_rate) : o \in target}
    /\ call' = [NoCall EXCEPT !.name = "exit", !.dt = Some(exit_time), !.rate = exit_rate]
    /\ returned' = None
    /\ raised' = "none"
    /\ UNCHANGED sim_vars
    /\ UNCHANGED fn_vars

\* order.gain
ReadGain ==
    /\ call' = [NoCall EXCEPT !.name = "gain"]
    /\ returned' = GainOutcome(Get(target)).value
    /\ raised' = GainOutcome(Get(target)).raised
    /\ UNCHANGED target
    /\ UNCHANGED sim_vars
    /\ UNCHANGED fn_vars

NextOrder ==
    \/ \E exit_time \in Datetimes, exit_rate \in Rates : CallExit(exit_time, exit_rate)
    \/ ReadGain

\* one Order, exit() and gain called on it in any order
SpecOrder == InitOrder /\ [][NextOrder]_vars

\* ------------------------------------------------------------------------
\* TestOrderSimulator.test_step (src/common/test_common_utils.py): one day of
\* 1-minute bars replayed through step with the flags passed by position,
\* then export_results.

TestLen == 1440       \* len(index): the minutes of 2022-01-03
TestHalf == 720       \* len(index) // 2
TestStartHour == 2
TestEndHour == 22
TestLossCut == 5

\* bar i of the day, as hour * 60 + minute
Bar(hour, minute) == hour * 60 + minute

\* index[i]
TestDt(i) == [month |-> 1, day |-> 3, hour |-> i \div 60, minute |-> i % 60]

\* rate[i]: 719, 718, ..., 0, 0, 1, ..., 719
TestRate(i) == IF i < TestHalf THEN (TestHalf - 1) - i ELSE i - TestHalf

\* the rows of order_df set to True, lines 64-112
TestLongEntry == {Bar(1, 59), Bar(2, 0), Bar(3, 0), Bar(13, 0), Bar(21, 58)}
TestShortEntry == {Bar(2, 1), Bar(14, 0)}
TestLongExit == {Bar(2, 0), Bar(2, 1), Bar(14, 0)}
TestShortExit == {Bar(2, 1), Bar(2, 59), Bar(14, 0)}

\* one row of the expected frame
Trade(position_type, entry_bar, exit_bar, entry_rate, exit_rate, gain) ==
    [position_type |-> position_type,
     entry_time |-> TestDt(entry_bar),
     exit_time |-> Some(TestDt(exit_bar)),
     entry_rate |-> entry_rate,
     exit_rate |-> Some(exit_rate),
     gain |-> gain]

\* expected, lines 69-118
TestExpected ==
    << Trade(LONG, Bar(2, 0), Bar(2, 1), 719 - 120, 719 - 121, 0 - 1),
       Trade(SHORT, Bar(2, 1), Bar(2, 59), 719 - 121, 719 - 179, 58),
       Trade(LONG, Bar(3, 0), Bar(3, 5), 719 - 180, 719 - 185, 0 - 5),
       Trade(LONG, Bar(13, 0), Bar(14, 0), 60, 120, 60),
       Trade(SHORT, Bar(14, 0), Bar(14, 5), 120, 125, 0 - 5),
       Trade(LONG, Bar(21, 58), Bar(22, 0), 598, 600, 2) >>

\* OrderSimulator.step, lines 70-73: the parameters that four flags passed by
\* position are bound to
BindFlags(a, b, c, d) ==
    [long_entry |-> a, long_exit |-> b, short_entry |-> c, short_exit |-> d]

\* OrderSimulator(start_hour=2, end_hour=22, thresh_loss_cut=5.)
InitTest ==
    /\ start_hour = TestStartHour
    /\ end_hour = TestEndHour
    /\ thresh_losscut = TestLossCut
    /\ open_position = None
    /\ order_history = <<>>
    /\ next_id = 0
    /\ last_dt = None
    /\ call = NoCall
    /\ pre = [open_position |-> None, order_history |-> <<>>, last_dt |-> None]
    /\ returned = None
    /\ raised = "none"
    /\ nsteps = 0
    /\ target = None
    /\ argv = <<>>
    /\ det = DetIdle
    /\ lab = LabIdle
    /\ ldr = LdrIdle

\* one pass of the loop of lines 120-128: step(index[i], rate[i], long_entry[i],
\* short_entry[i], long_exit[i], short_exit[i]), the flags by position
ReplayStep ==
    LET i == nsteps
        a == i \in TestLongEntry
        b == i \in TestShortEntry
        c == i \in TestLongExit
        d == i \in TestShortExit
        flags == BindFlags(a, b, c, d)
    IN  /\ nsteps < TestLen
        /\ nsteps' = nsteps + 1
        /\ argv' = <<a, b, c, d>>
        /\ StepBody(TestDt(i), TestRate(i), flags.long_entry, flags.long_exit,
                    flags.short_entry, flags.short_exit)

\* line 131: export_results once the loop has ended
ReplayExport ==
    /\ nsteps = TestLen
    /\ ExportResults

NextTest == ReplayStep \/ ReplayExport

\* the run of test_step
SpecTest == InitTest /\ [][NextTest]_vars

\* ------------------------------------------------------------------------
\* The Extremum Detector (compute_critical_idxs).  Its implementation,
\* modeling/utils.py, is not among the sources: only its test,
\* modeling/test_utils.py, is.  The algorithm below is the one of the
\* specification, section 4.1; the inputs of the test are the test's.
\* Indices are the 0-based indices of the caller; values are integers: the
\* test's values and threshold are multiplied by ten, which changes no
\* comparison of the algorithm.
\* ------------------------------------------------------------------------

\* bounds of the enumerated inputs
MaxLen == 4
MaxValue == 3
MaxThreshold == 2

\* the enumerated value sequences: every sequence of at most MaxLen values
DetSeqs == UNION {[1 .. n -> 0 .. MaxValue] : n \in 0 .. MaxLen}

\* the enumerated thresholds; those <= 0 are invalid
DetThresholds == -1 .. MaxThreshold

\* the two cases of test_compute_ctirical_idxs, times ten
TestValues1 == <<10, 20, 30, 0, 20, 10, 50, 30, 10>>
TestValues2 == <<30, 20, 10, 0, 10, 20, 10, 9, 8>>
TestThresh == 15

\* the value at a 0-based index
DetValueAt(values, idx) == values[idx + 1]

\* the last element of a non-empty sequence
Last(seq) == seq[Len(seq)]

\* the errors a call can fail with: which one when both apply is not fixed
DetectErrorsThresholdOnly(values, threshold) ==
    IF threshold <= 0 THEN {"InvalidThreshold"} ELSE {}

DetectErrors(values, threshold) ==
    (IF threshold <= 0 THEN {"InvalidThreshold"} ELSE {})
        \cup (IF Len(values) = 0 THEN {"EmptyInput"} ELSE {})

\* a call that has not begun
DetCall(values, threshold) ==
    [status |-> "called", values |-> values, threshold |-> threshold,
     i |-> 0, direction |-> "unset", candidate |-> 0, committed |-> <<>>,
     error |-> "none"]

\* step 1 and 2: the first index is committed, the direction is unset and
\* the candidate is the first point
ScanStart(st) ==
    [st EXCEPT !.status = "scanning", !.committed = <<0>>,
               !.direction = "unset", !.candidate = 0, !.i = 1]

\* a scan that flips on every opposite move, whatever its size
ScanPointNoHysteresis(st) ==
    LET i == st.i
        v == DetValueAt(st.values, i)
        cv == DetValueAt(st.values, st.candidate)
        next == [st EXCEPT !.i = i + 1]
    IN  CASE st.direction = "unset" ->
                 IF v > cv
                 THEN [next EXCEPT !.direction = "rising", !.candidate = i]
                 ELSE IF v < cv
                 THEN [next EXCEPT !.direction = "falling", !.candidate = i]
                 ELSE next
          [] st.direction = "rising" ->
                 IF v > cv
                 THEN [next EXCEPT !.candidate = i]
                 ELSE IF cv - v > 0
                 THEN [next EXCEPT !.committed = Append(@, st.candidate),
                                   !.direction = "falling", !.candidate = i]
                 ELSE next
          [] st.direction = "falling" ->
                 IF v < cv
                 THEN [next EXCEPT !.candidate = i]
                 ELSE IF v - cv > 0
                 THEN [next EXCEPT !.committed = Append(@, st.candidate),
                                   !.direction = "rising", !.candidate = i]
                 ELSE next

\* a scan that commits at a reversal but keeps its direction
ScanPointKeepsDirection(st) ==
    LET i == st.i
        v == DetValueAt(st.values, i)
        cv == DetValueAt(st.values, st.candidate)
        next == [st EXCEPT !.i = i + 1]
    IN  CASE st.direction = "unset" ->
                 IF v > cv
                 THEN [next EXCEPT !.direction = "rising", !.candidate = i]
                 ELSE IF v < cv
                 THEN [next EXCEPT !.direction = "falling", !.candidate = i]
                 ELSE next
          [] st.direction = "rising" ->
                 IF v > cv
                 THEN [next EXCEPT !.candidate = i]
                 ELSE IF cv - v >= st.threshold
                 THEN [next EXCEPT !.committed = Append(@, st.candidate),
                                   !.candidate = i]
                 ELSE next
          [] st.direction = "falling" ->
                 IF v < cv
                 THEN [next EXCEPT !.candidate = i]
                 ELSE IF v - cv >= st.threshold
                 THEN [next EXCEPT !.committed = Append(@, st.candidate),
                                   !.candidate = i]
                 ELSE next

\* a scan that moves the candidate to a point of equal value
ScanPointTieMoves(st) ==
    LET i == st.i
        v == DetValueAt(st.values, i)
        cv == DetValueAt(st.values, st.candidate)
        next == [st EXCEPT !.i = i + 1]
    IN  CASE st.direction = "unset" ->
                 IF v > cv
                 THEN [next EXCEPT !.direction = "rising", !.candidate = i]
                 ELSE IF v < cv
                 THEN [next EXCEPT !.direction = "falling", !.candidate = i]
                 ELSE [next EXCEPT !.candidate = i]
          [] st.direction = "rising" ->
                 IF v >= cv
                 THEN [next EXCEPT !.candidate = i]
                 ELSE IF cv - v >= st.threshold
                 THEN [next EXCEPT !.committed = Append(@, st.candidate),
                                   !.direction = "falling", !.candidate = i]
                 ELSE next
          [] st.direction = "falling" ->
                 IF v <= cv
                 THEN [next EXCEPT !.candidate = i]
                 ELSE IF v - cv >= st.threshold
                 THEN [next EXCEPT !.committed = Append(@, st.candidate),
                                   !.direction = "rising", !.candidate = i]
                 ELSE next

\* step 3: one point of the scan
ScanPoint(st) ==
    LET i == st.i
        v == DetValueAt(st.values, i)
        cv == DetValueAt(st.values, st.candidate)
        next == [st EXCEPT !.i = i + 1]
    IN  CASE st.direction = "unset" ->
                 IF v > cv
                 THEN [next EXCEPT !.direction = "rising", !.candidate = i]
                 ELSE IF v < cv
                 THEN [next EXCEPT !.direction = "falling", !.candidate = i]
                 ELSE next
          [] st.direction = "rising" ->
                 IF v > cv
                 THEN [next EXCEPT !.candidate = i]
                 ELSE IF cv - v >= st.threshold
                 THEN [next EXCEPT !.committed = Append(@, st.candidate),
                                   !.direction = "falling", !.candidate = i]
                 ELSE next
          [] st.direction = "falling" ->
                 IF v < cv
                 THEN [next EXCEPT !.candidate = i]
                 ELSE IF v - cv >= st.threshold
                 THEN [next EXCEPT !.committed = Append(@, st.candidate),
                                   !.direction = "rising", !.candidate = i]
                 ELSE next

\* a final commit of the last index instead of the candidate
FinalCommitLastIndex(st) ==
    [st EXCEPT !.status = "done",
               !.committed = IF Last(@) = Len(st.values) - 1
                             THEN @
                             ELSE Append(@, Len(st.values) - 1)]

\* step 4: the candidate is committed whatever its swing, but no index twice
FinalCommit(st) ==
    [st EXCEPT !.status = "done",
               !.committed = IF Last(@) = st.candidate
                             THEN @
                             ELSE Append(@, st.candidate)]

\* the inputs of the calls: the enumerated ones and the test's
InitDetect ==
    /\ SimInit
    /\ target = None
    /\ argv = <<>>
    /\ lab = LabIdle
    /\ ldr = LdrIdle
    /\ \/ \E values \in DetSeqs, threshold \in DetThresholds :
            det = DetCall(values, threshold)
       \/ \E values \in {TestValues1, TestValues2} :
            det = DetCall(values, TestThresh)

\* the variables the detector leaves alone
not_det == <<sim_vars, call, returned, raised, target, lab, ldr>>

\* the call fails on an invalid argument
DetectFail ==
    /\ det.status = "called"
    /\ \E e \in DetectErrors(det.values, det.threshold) :
           det' = [det EXCEPT !.status = "failed", !.error = e]
    /\ UNCHANGED not_det

\* the call begins its scan
DetectBegin ==
    /\ det.status = "called"
    /\ DetectErrors(det.values, det.threshold) = {}
    /\ det' = ScanStart(det)
    /\ UNCHANGED not_det

\* the scan looks at the next point
DetectScan ==
    /\ det.status = "scanning"
    /\ det.i < Len(det.values)
    /\ det' = ScanPoint(det)
    /\ UNCHANGED not_det

\* the scan ends
DetectFinish ==
    /\ det.status = "scanning"
    /\ det.i = Len(det.values)
    /\ det' = FinalCommit(det)
    /\ UNCHANGED not_det

NextDetect == DetectFail \/ DetectBegin \/ DetectScan \/ DetectFinish

\* the Extremum Detector on its own
SpecDetect == InitDetect /\ [][NextDetect]_vars

\* ------------------------------------------------------------------------
\* The SMA-difference Signal Generator (create_smadiff_labels).  Its
\* implementation, modeling/utils.py, is not among the sources: only its
\* test is.  The generator below is the one of the specification, section
\* 4.2; the price frame is built as the test builds it.  A comparison of
\* the difference of two averages with a threshold is made on integers, by
\* multiplying both sides by the two window sizes.
\* ------------------------------------------------------------------------

\* the enumerated window sizes and pairs of thresholds (thresh_entry above
\* thresh_hold)
Windows == {1, 2, 3}
ThreshPairs ==
    {p \in (1 .. MaxThreshold) \X (0 .. MaxThreshold) : p[1] > p[2]}

\* the spread of the test's price frame: high = values + 1, low = values - 1
TestSpread == 1

\* the input of test_create_smadiff_labels
TestSmaValues == <<1, 2, 3, 0, 2, 1, -1, 0, 1>>
TestWindowBefore == 2
TestWindowAfter == 3
TestThreshEntry == 1
TestThreshHold == 0

\* the columns of the price frame
HighOf(values) == [k \in 1 .. Len(values) |-> values[k] + TestSpread]
LowOf(values) == [k \in 1 .. Len(values) |-> values[k] - TestSpread]

\* the sum of the points of a series at the 0-based indices lo .. hi that exist
RECURSIVE SumOver(_, _, _)
SumOver(series, lo, hi) ==
    IF lo > hi
    THEN 0
    ELSE (IF hi \in 0 .. Len(series) - 1 THEN series[hi + 1] ELSE 0)
             + SumOver(series, lo, hi - 1)

\* windows taken as complete everywhere, averaged over the points that exist
WindowsCompleteAlways(n, i, before, after) == TRUE

\* the trailing window i - before + 1 .. i and the leading window
\* i .. i + after - 1 lie within the series
WindowsComplete(n, i, before, after) ==
    /\ i - before + 1 >= 0
    /\ i + after - 1 <= n - 1

\* (leading average - trailing average) * before * after
DiffScaled(series, i, before, after) ==
    before * SumOver(series, i, i + after - 1)
        - after * SumOver(series, i - before + 1, i)

\* no signal
NoSignal ==
    [long_entry |-> FALSE, short_entry |-> FALSE,
     long_exit |-> FALSE, short_exit |-> FALSE]

\* the four channels at index i: the long side from low, the short side
\* from high
SmaDiffLabel(c, i) ==
    LET scale == c.window_size_before * c.window_size_after
        low == DiffScaled(c.low, i, c.window_size_before, c.window_size_after)
        high == DiffScaled(c.high, i, c.window_size_before, c.window_size_after)
    IN  IF WindowsComplete(Len(c.values), i,
                           c.window_size_before, c.window_size_after)
        THEN [long_entry |-> low > c.thresh_entry * scale,
              short_entry |-> high < -(c.thresh_entry * scale),
              long_exit |-> low < -(c.thresh_hold * scale),
              short_exit |-> high > c.thresh_hold * scale]
        ELSE NoSignal

\* a call of the generator
LabCall(values, before, after, thresh_entry, thresh_hold) ==
    [status |-> "called", kind |-> "smadiff", values |-> values,
     high |-> HighOf(values), low |-> LowOf(values),
     window_size_before |-> before, window_size_after |-> after,
     thresh_entry |-> thresh_entry, thresh_hold |-> thresh_hold,
     out |-> <<>>]

\* the inputs of the calls: the enumerated ones and the test's
InitSmaDiff ==
    /\ SimInit
    /\ target = None
    /\ argv = <<>>
    /\ det = DetIdle
    /\ ldr = LdrIdle
    /\ \/ \E values \in DetSeqs, before \in Windows, after \in Windows,
            p \in ThreshPairs :
            lab = LabCall(values, before, after, p[1], p[2])
       \/ lab = LabCall(TestSmaValues, TestWindowBefore, TestWindowAfter,
                        TestThreshEntry, TestThreshHold)

\* the variables a generator leaves alone
not_lab == <<sim_vars, call, returned, raised, target, det, ldr>>

\* the pass labels the next index
SmaDiffPoint ==
    /\ lab.status = "called"
    /\ Len(lab.out) < Len(lab.values)
    /\ lab' = [lab EXCEPT !.out = Append(@, SmaDiffLabel(lab, Len(lab.out)))]
    /\ UNCHANGED not_lab

\* the pass is over: the SignalFrame is returned
SmaDiffReturn ==
    /\ lab.status = "called"
    /\ Len(lab.out) = Len(lab.values)
    /\ lab' = [lab EXCEPT !.status = "done"]
    /\ UNCHANGED not_lab

NextSmaDiff == SmaDiffPoint \/ SmaDiffReturn

\* the SMA-difference generator on its own
SpecSmaDiff == InitSmaDiff /\ [][NextSmaDiff]_vars

\* ------------------------------------------------------------------------
\* The SMA-trend Signal Generator (create_smatrend_labels).  Its
\* implementation, modeling/utils.py, is not among the sources: only its
\* test is.  The generator below is the one of the specification, section
\* 4.2; the price frame is built as the test builds it.  The centered
\* average is compared on integers, as a sum over the window.
\* ------------------------------------------------------------------------

\* the enumerated window sizes of the centered average (odd) and steps
TrendWindows == {1, 3}
TrendSteps == {1, 2}

\* the input of test_create_smatrend_labels
TestTrendValues == <<0, 1, 2, 3, 7, 8, 6, 16, 14, 3, 10, 8, -6, 7, 5>>
TestTrendWindow == 3
TestStepBefore == 2
TestStepAfter == 2
TestTrendThresh == 4

\* half of the centered window: the points on each side of its centre
HalfWindow(window_size) == (window_size - 1) \div 2

\* the centered window of index i lies within the series
SmaDefined(n, i, window_size) ==
    /\ i - HalfWindow(window_size) >= 0
    /\ i + HalfWindow(window_size) <= n - 1

\* the centered average at index i, times window_size
SmaScaled(series, i, window_size) ==
    SumOver(series, i - HalfWindow(window_size), i + HalfWindow(window_size))

\* (average step_after ahead - average step_before back) * window_size at
\* index i; defined where both averages are
TrendDefined(c, i) ==
    /\ i \in 0 .. Len(c.values) - 1
    /\ SmaDefined(Len(c.values), i - c.step_before, c.window_size)
    /\ SmaDefined(Len(c.values), i + c.step_after, c.window_size)

TrendScaled(c, series, i) ==
    SmaScaled(series, i + c.step_after, c.window_size)
        - SmaScaled(series, i - c.step_before, c.window_size)

\* a rise beyond thresh_entry at index i (long side: low), a fall beyond it
\* (short side: high)
RiseAt(c, i) ==
    /\ TrendDefined(c, i)
    /\ TrendScaled(c, c.low, i) > c.thresh_entry * c.window_size

FallAt(c, i) ==
    /\ TrendDefined(c, i)
    /\ TrendScaled(c, c.high, i) < -(c.thresh_entry * c.window_size)

\* the triggers whose span marks index j: only the trigger at j itself
TriggersOverPointOnly(c, j) == {j}

\* the triggers whose span i - step_before .. i + step_after holds index j
TriggersOver(c, j) == {i \in j - c.step_after .. j + c.step_before : TRUE}

\* the four channels at index j
SmaTrendLabel(c, j) ==
    [long_entry |-> RiseAt(c, j),
     short_entry |-> FallAt(c, j),
     long_exit |-> \E i \in TriggersOver(c, j) : FallAt(c, i),
     short_exit |-> \E i \in TriggersOver(c, j) : RiseAt(c, i)]

\* a call of the generator
TrendCall(values, window_size, step_before, step_after, thresh_entry) ==
    [status |-> "called", kind |-> "smatrend", values |-> values,
     high |-> HighOf(values), low |-> LowOf(values),
     window_size |-> window_size, step_before |-> step_before,
     step_after |-> step_after, thresh_entry |-> thresh_entry,
     out |-> <<>>]

\* the inputs of the calls: the enumerated ones and the test's
InitSmaTrend ==
    /\ SimInit
    /\ target = None
    /\ argv = <<>>
    /\ det = DetIdle
    /\ ldr = LdrIdle
    /\ \/ \E values \in DetSeqs, window_size \in TrendWindows,
            step_before \in TrendSteps, step_after \in TrendSteps,
            thresh_entry \in 1 .. MaxThreshold :
            lab = TrendCall(values, window_size, step_before, step_after,
                            thresh_entry)
       \/ lab = TrendCall(TestTrendValues, TestTrendWindow, TestStepBefore,
                          TestStepAfter, TestTrendThresh)

\* the pass labels the next index
SmaTrendPoint ==
    /\ lab.status = "called"
    /\ lab.kind = "smatrend"
    /\ Len(lab.out) < Len(lab.values)
    /\ lab' = [lab EXCEPT !.out = Append(@, SmaTrendLabel(lab, Len(lab.out)))]
    /\ UNCHANGED not_lab

\* the pass is over: the SignalFrame is returned
SmaTrendReturn ==
    /\ lab.status = "called"
    /\ lab.kind = "smatrend"
    /\ Len(lab.out) = Len(lab.values)
    /\ lab' = [lab EXCEPT !.status = "done"]
    /\ UNCHANGED not_lab

NextSmaTrend == SmaTrendPoint \/ SmaTrendReturn

\* the SMA-trend generator on its own
SpecSmaTrend == InitSmaTrend /\ [][NextSmaTrend]_vars

\* ------------------------------------------------------------------------
\* CNNDataset.create_loader (modeling/cnn_utils.py, lines 50-82) and the
\* loop of CNNModel.predict_score that consumes it (lines 326-334).  An
\* entry of base_index is its position 1 .. n; of the frames x and y the
\* model keeps what the loop asks of them: whether an entry has lag_max
\* earlier rows in every sequential frame (the assert of line 67) and whether
\* it has a row in y (the y.loc of line 78).
\* ------------------------------------------------------------------------

\* bounds: the length of base_index, the batch size
MaxN == 3
MaxBatch == 3

\* what the frames hold for an entry
EntryKinds == {"ok", "short_lag", "no_label"}

\* the batch sizes passed; with 0 the loop never advances
BatchSizes == 0 .. MaxBatch

\* the permutations of 1 .. n, as sequences (np.random.permutation)
Permutations(n) ==
    {f \in [1 .. n -> 1 .. n] : \A a, b \in 1 .. n : f[a] = f[b] => a = b}

\* index[lo : hi] of python, lo and hi counted from 0, hi clipped
Slice(index, lo, hi) ==
    SubSeq(index, lo + 1, IF hi < Len(index) THEN hi ELSE Len(index))

\* a dataset and a call create_loader(batch_size, randomize) on it
LoaderCall(kinds, has_y, batch_size, randomize) ==
    [status |-> "created",
     base_index |-> [k \in 1 .. Len(kinds) |-> k],
     kinds |-> kinds, has_y |-> has_y,
     batch_size |-> batch_size, randomize |-> randomize,
     index |-> <<>>, done_count |-> 0, batches |-> <<>>, error |-> "none"]

\* the loop stopping before a last batch that is not full
LoopCondFullBatchesOnly(l) == l.done_count + l.batch_size <= Len(l.index)

\* line 59: while done_count < len(index)
LoopCond(l) == l.done_count < Len(l.index)

\* line 60: index_batch
IndexBatch(l) == Slice(l.index, l.done_count, l.done_count + l.batch_size)

\* the exception the body of the loop ends with on a batch: the assert of
\* line 67 comes before the y.loc of line 78
BatchError(l, batch) ==
    IF \E k \in 1 .. Len(batch) : l.kinds[batch[k]] = "short_lag"
    THEN "AssertionError"
    ELSE IF l.has_y /\ \E k \in 1 .. Len(batch) : l.kinds[batch[k]] = "no_label"
    THEN "KeyError"
    ELSE "none"

InitLoader ==
    /\ SimInit
    /\ target = None
    /\ argv = <<>>
    /\ det = DetIdle
    /\ lab = LabIdle
    /\ \E n \in 0 .. MaxN :
       \E kinds \in [1 .. n -> EntryKinds], has_y \in BOOLEAN,
          batch_size \in BatchSizes, randomize \in BOOLEAN :
            ldr = LoaderCall(kinds, has_y, batch_size, randomize)

\* the variables the loader leaves alone
not_ldr == <<sim_vars, call, returned, raised, target, det, lab>>

\* lines 51-58: the first next() enters the body
LoaderBegin ==
    /\ ldr.status = "created"
    /\ \E perm \in IF ldr.randomize
                  THEN Permutations(Len(ldr.base_index))
                  ELSE {ldr.base_index} :
           ldr' = [ldr EXCEPT !.status = "running",
                              !.index = [k \in 1 .. Len(perm) |->
                                            ldr.base_index[perm[k]]],
                              !.done_count = 0]
    /\ UNCHANGED not_ldr

\* lines 59-82: one pass of the loop yields a batch; the consumer appends
\* it and asks for the next.  A loader that never advances is followed for
\* MaxN + 1 batches.
LoaderYield ==
    /\ ldr.status = "running"
    /\ LoopCond(ldr)
    /\ BatchError(ldr, IndexBatch(ldr)) = "none"
    /\ Len(ldr.batches) <= MaxN
    /\ ldr' = [ldr EXCEPT !.batches = Append(@, IndexBatch(ldr)),
                          !.done_count = @ + ldr.batch_size]
    /\ UNCHANGED not_ldr

\* lines 59-78: the pass of the loop raises
LoaderRaise ==
    /\ ldr.status = "running"
    /\ LoopCond(ldr)
    /\ BatchError(ldr, IndexBatch(ldr)) # "none"
    /\ ldr' = [ldr EXCEPT !.status = "failed",
                          !.error = BatchError(ldr, IndexBatch(ldr))]
    /\ UNCHANGED not_ldr

\* line 59: the loop ends, the generator is exhausted
LoaderReturn ==
    /\ ldr.status = "running"
    /\ ~LoopCond(ldr)
    /\ ldr' = [ldr EXCEPT !.status = "done"]
    /\ UNCHANGED not_ldr

NextLoader == LoaderBegin \/ LoaderYield \/ LoaderRaise \/ LoaderReturn

\* a loader consumed by a for loop, which asks for the next batch until the
\* generator ends (cnn_utils.py, line 329)
SpecLoader == InitLoader /\ [][NextLoader]_vars /\ WF_vars(NextLoader)

\* ------------------------------------------------------------------------
\* Vocabulary of the properties, stated on the most recent call (call), the
\* state it began in (pre) and the state it left.

\* the most recent call is a step call that returned
Stepped == call.name = "step" /\ raised = "none"

\* that call's dt
CallDt == Get(call.dt)

\* dt is inside the trading window: start_hour <= hour < end_hour, not 25 December
InTradingWindow(dt) ==
    /\ start_hour <= dt.hour
    /\ dt.hour < end_hour
    /\ ~(dt.month = 12 /\ dt.day = 25)

\* the call's exit flag of o's own direction
OwnExitFlag(o) == IF o.position_type = LONG THEN call.long_exit ELSE call.short_exit

\* o's unrealized loss at the call's price
LossAtCall(o) ==
    IF o.position_type = LONG THEN o.entry_rate - call.rate ELSE call.rate - o.entry_rate

\* the exit condition of position o at the call
OwnExit(o) ==
    ~InTradingWindow(CallDt) \/ OwnExitFlag(o) \/ LossAtCall(o) >= thresh_losscut

\* o closed at the call's timestamp and price
ClosedAtCall(o) == [o EXCEPT !.exit_time = Some(CallDt), !.exit_rate = Some(call.rate)]

\* the call closed o: the history is the one it began with plus o, closed
ClosedNow(o) == order_history = Append(pre.order_history, ClosedAtCall(o))

\* the simulator is FLAT after the call's exit evaluation
FlatAfterExit == \A o \in pre.open_position : OwnExit(o)

\* identities of the Orders that existed when the call began
IdsBefore ==
    {o.id : o \in pre.open_position}
    \cup {pre.order_history[i].id : i \in 1 .. Len(pre.order_history)}

\* the call opened a position: open_position is an Order that did not exist before
Opened == \E o \in open_position : o.id \notin IdsBefore

\* every Order the simulator holds, open or closed
AllOrders == open_position \cup {order_history[i] : i \in 1 .. Len(order_history)}

\* the previous step call's dt is not before this call's: the call is out of order
OutOfOrder == \E t \in pre.last_dt : ~Before(t, CallDt)

\* ------------------------------------------------------------------------
\* C1: after any sequence of step calls the simulator holds at most one open
\* position: open_position is none or a single Order whose exit_time and
\* exit_rate are unset and which is not an element of order_history.
C1_AtMostOneOpenPosition ==
    /\ Cardinality(open_position) <= 1
    /\ \A o \in open_position :
        /\ o.exit_time = None
        /\ o.exit_rate = None
        /\ \A i \in 1 .. Len(order_history) : order_history[i].id # o.id

\* a position is open while the history holds a closed Order
C1_Witness == Stepped /\ open_position # None /\ Len(order_history) >= 1

\* C2: a step that starts with a position open closes it iff not is_open, or
\* the exit flag of its direction, or its loss >= thresh_losscut (inclusive);
\* a closure sets exit_time/exit_rate to the step's timestamp/price and
\* appends the Order to order_history exactly once.
C2_ExitIffCondition ==
    Stepped =>
        \A o \in pre.open_position :
            IF OwnExit(o)
            THEN ClosedNow(o) /\ (\A p \in open_position : p.id # o.id)
            ELSE open_position = Some(o) /\ order_history = pre.order_history

\* a LONG closed once by a step in which the exit flag and the loss-cut
\* (at equality) both hold, inside the trading window
C2_Witness ==
    /\ Stepped
    /\ InTradingWindow(CallDt)
    /\ call.long_exit /\ call.short_exit
    /\ \E o \in pre.open_position :
        /\ o.position_type = LONG
        /\ o.entry_rate - call.rate = thresh_losscut
        /\ ClosedNow(o)

\* C3: a step opens a position iff the simulator is FLAT after its exit
\* evaluation, is_open holds and long_entry or short_entry is set; the new
\* Order's entry_time and entry_rate are the step's timestamp and price; no
\* Order, open or closed, has an entry_time outside the trading window.
C3_EntryIffFlatOpenAndFlag ==
    /\ Stepped =>
        /\ Opened <=> (/\ FlatAfterExit
                       /\ InTradingWindow(CallDt)
                       /\ (call.long_entry \/ call.short_entry))
        /\ Opened => \A o \in open_position :
                        o.entry_time = CallDt /\ o.entry_rate = call.rate
    /\ \A o \in AllOrders : InTradingWindow(o.entry_time)

\* a step that closed a position and opened the next one
C3_Witness ==
    /\ Stepped
    /\ Opened
    /\ \E o \in pre.open_position : ClosedNow(o)

\* C4: a step taken while FLAT after exit evaluation and is_open, with both
\* long_entry and short_entry set, opens a LONG, whatever the exit flags and
\* the price.
C4_LongPriority ==
    (/\ Stepped
     /\ FlatAfterExit
     /\ InTradingWindow(CallDt)
     /\ call.long_entry /\ call.short_entry)
    => (Opened /\ \A o \in open_position : o.position_type = LONG)

\* both entry flags and both exit flags set: a SHORT closed, a LONG opened
C4_Witness ==
    /\ Stepped
    /\ call.long_entry /\ call.short_entry /\ call.long_exit /\ call.short_exit
    /\ \E o \in pre.open_position : o.position_type = SHORT /\ ClosedNow(o)
    /\ Opened
    /\ \A o \in open_position : o.position_type = LONG

\* C5: an open position that no exit flag or loss-cut closes stays open over
\* the steps inside the trading window and is closed by the first step whose
\* timestamp is outside it, at that step's timestamp and price; that step
\* opens nothing; after every step outside the window the simulator is FLAT.
C5_ClosedWhenWindowCloses ==
    Stepped =>
        IF InTradingWindow(CallDt)
        THEN \A o \in pre.open_position :
                (~OwnExitFlag(o) /\ LossAtCall(o) < thresh_losscut)
                => (open_position = Some(o) /\ order_history = pre.order_history)
        ELSE /\ open_position = None
             /\ \A o \in pre.open_position : ClosedNow(o)
             /\ pre.open_position = None => order_history = pre.order_history

\* a position that stayed open over an earlier step is closed by a step
\* outside the window whose entry flags are set
C5_Witness ==
    /\ Stepped
    /\ ~InTradingWindow(CallDt)
    /\ call.long_entry /\ call.short_entry
    /\ ~call.long_exit /\ ~call.short_exit
    /\ open_position = None
    /\ \E o \in pre.open_position :
        /\ \E t \in pre.last_dt : Before(o.entry_time, t)
        /\ LossAtCall(o) < thresh_losscut
        /\ ClosedNow(o)

\* C6: no step both opens and closes the same Order: the Order a step
\* creates is open when the step returns, the Order a step closes was open
\* when the step began, and (timestamps strictly increasing) every closed
\* Order has exit_time strictly after entry_time.
C6_NoOpenAndCloseInOneStep ==
    /\ Stepped =>
        /\ Opened => \A o \in open_position :
                        /\ o.exit_time = None
                        /\ \A i \in 1 .. Len(order_history) : order_history[i].id # o.id
        /\ order_history # pre.order_history => \E o \in pre.open_position : ClosedNow(o)
    /\ \A i \in 1 .. Len(order_history) :
        /\ order_history[i].exit_time # None
        /\ Before(order_history[i].entry_time, Get(order_history[i].exit_time))

\* a step with long_entry and long_exit both set opened a LONG and left it
\* open, after an earlier Order was closed
C6_Witness ==
    /\ Stepped
    /\ call.long_entry /\ call.long_exit
    /\ Opened
    /\ \E o \in open_position : o.position_type = LONG /\ o.exit_time = None
    /\ Len(order_history) >= 1

\* C7: a step changes the state only through a satisfied exit or entry
\* condition: while FLAT the exit flags have no effect; while a position is
\* open and its own exit condition is false, open_position and order_history
\* are unchanged whatever the other exit flag and both entry flags.
C7_FrameOfStep ==
    Stepped =>
        /\ pre.open_position = None =>
            /\ order_history = pre.order_history
            /\ open_position # None <=>
                (InTradingWindow(CallDt) /\ (call.long_entry \/ call.short_entry))
        /\ \A o \in pre.open_position :
            ~OwnExit(o) =>
                (open_position = pre.open_position /\ order_history = pre.order_history)

\* a LONG stays open over a step with short_exit and both entry flags set
C7_Witness ==
    /\ Stepped
    /\ call.short_exit /\ call.long_entry /\ call.short_entry /\ ~call.long_exit
    /\ \E o \in pre.open_position : o.position_type = LONG /\ ~OwnExit(o)
    /\ open_position = pre.open_position
    /\ order_history = pre.order_history

\* C8: order_history is append-only and chronological: every call leaves the
\* history it began with as a prefix and appends at most one Order; with
\* increasing timestamps exit_time is non-decreasing along the history and
\* each entry_time is not earlier than the previous Order's exit_time.
C8_HistoryAppendOnlyChronological ==
    /\ Len(pre.order_history) <= Len(order_history)
    /\ Len(order_history) <= Len(pre.order_history) + 1
    /\ SubSeq(order_history, 1, Len(pre.order_history)) = pre.order_history
    /\ \A i \in 1 .. Len(order_history) - 1 :
        /\ ~Before(Get(order_history[i + 1].exit_time), Get(order_history[i].exit_time))
        /\ ~Before(order_history[i + 1].entry_time, Get(order_history[i].exit_time))

\* three closed Orders, the second opened after the first was closed, the
\* third opened by the step that closed the second
C8_Witness ==
    /\ Len(order_history) >= 3
    /\ Before(Get(order_history[1].exit_time), order_history[2].entry_time)
    /\ order_history[3].entry_time = Get(order_history[2].exit_time)

\* C9: export_results returns one row per Order of order_history, in history
\* order, with gain defined for every row, and changes no simulator state;
\* a position that is still open is not included and stays open.
C9_ExportOneRowPerClosedOrder ==
    call.name = "export_results" =>
        /\ raised = "none"
        /\ returned # None
        /\ \A rows \in returned :
            /\ Len(rows) = Len(order_history)
            /\ \A i \in 1 .. Len(rows) :
                /\ rows[i].position_type = order_history[i].position_type
                /\ rows[i].entry_time = order_history[i].entry_time
                /\ rows[i].exit_time = order_history[i].exit_time
                /\ rows[i].entry_rate = order_history[i].entry_rate
                /\ rows[i].exit_rate = order_history[i].exit_rate
                /\ rows[i].gain \in Int
        /\ open_position = pre.open_position
        /\ order_history = pre.order_history
        /\ \A o \in open_position : o.exit_time = None /\ o.exit_rate = None

\* an export of two closed Orders while a third position is open
C9_Witness ==
    /\ call.name = "export_results"
    /\ open_position # None
    /\ \E rows \in returned : Len(rows) = 2

\* C10, as stated: a step call whose timestamp is not strictly after the
\* previous step call's fails with NonMonotonicTimestamp.
C10_FailsOnNonMonotonicTimestamp ==
    (call.name = "step" /\ OutOfOrder) => raised = "NonMonotonicTimestamp"

\* C10, amended: step does not check the order of timestamps: a call whose
\* timestamp is not strictly after the previous call's raises nothing and is
\* evaluated like any other call (exit evaluation, then entry evaluation).
C10_NoTimestampCheck ==
    (call.name = "step" /\ OutOfOrder) =>
        /\ raised = "none"
        /\ \A o \in pre.open_position : OwnExit(o) => ClosedNow(o)
        /\ (/\ FlatAfterExit
            /\ InTradingWindow(CallDt)
            /\ (call.long_entry \/ call.short_entry)) => Opened

\* an out-of-order step closed a position at a time before its entry_time
C10_Witness ==
    /\ call.name = "step"
    /\ OutOfOrder
    /\ raised = "none"
    /\ \E o \in pre.open_position : ClosedNow(o) /\ Before(CallDt, o.entry_time)

\* C11: reading Order.gain before an exit has been recorded on the Order
\* fails instead of returning a value; after an exit has been recorded it
\* returns a value.
C11_GainFailsBeforeExit ==
    call.name = "gain" =>
        \A o \in target :
            IF o.exit_rate = None
            THEN raised # "none" /\ returned = None
            ELSE raised = "none" /\ returned # None /\ returned \subseteq Int

\* gain read on an Order that was never exited: the read failed
C11_Witness ==
    /\ call.name = "gain"
    /\ raised = "AssertionError"
    /\ \E o \in target : o.exit_time = None /\ o.exit_rate = None

\* C12: for a closed Order gain is exit_rate - entry_rate when LONG and
\* entry_rate - exit_rate when SHORT; a LONG and a SHORT Order with the same
\* entry and exit rates have gains that sum to zero.
C12_GainSignConvention ==
    (call.name = "gain" /\ raised = "none") =>
        \A o \in target :
            \A exit_rate \in o.exit_rate :
                /\ o.position_type = LONG => returned = Some(exit_rate - o.entry_rate)
                /\ o.position_type = SHORT => returned = Some(o.entry_rate - exit_rate)
                /\ Gain([o EXCEPT !.position_type = LONG])
                   + Gain([o EXCEPT !.position_type = SHORT]) = 0

\* gain read on a closed SHORT whose rate fell: a gain above zero
C12_Witness ==
    /\ call.name = "gain"
    /\ raised = "none"
    /\ \E o \in target :
        /\ o.position_type = SHORT
        /\ \E exit_rate \in o.exit_rate : exit_rate < o.entry_rate
    /\ \E g \in returned : g > 0

\* C14: step takes its flags in the order (long_entry, short_entry,
\* long_exit, short_exit): a call with the flags (a, b, c, d) by position
\* treats b as short_entry and c as long_exit, and the replay of test_step
\* by position exports the six expected trades.
C14_PositionalFlagOrder ==
    /\ (call.name = "step" /\ argv # <<>>) =>
        /\ call.long_entry = argv[1]
        /\ call.short_entry = argv[2]
        /\ call.long_exit = argv[3]
        /\ call.short_exit = argv[4]
    /\ call.name = "export_results" => returned = Some(TestExpected)

\* the replay of test_step by position, with the flags bound as the code
\* binds them, exports the six expected trades
C14_ReplayExportsExpectedTrades ==
    call.name = "export_results" => (raised = "none" /\ returned = Some(TestExpected))

\* ------------------------------------------------------------------------
\* Vocabulary of the Extremum Detector's properties
\* ------------------------------------------------------------------------

\* the call returned its indices
Detected == det.status = "done"

\* the value at a committed index
Committed(k) == DetValueAt(det.values, det.committed[k])

\* the absolute difference
Abs(x) == IF x < 0 THEN -x ELSE x

\* the indices after idx
After(idx) == {j \in 0 .. Len(det.values) - 1 : j > idx}

\* no value after idx is above it, none is below it by the threshold or more
EndsAsPeak(idx) ==
    \A j \in After(idx) :
        /\ DetValueAt(det.values, j) <= DetValueAt(det.values, idx)
        /\ DetValueAt(det.values, idx) - DetValueAt(det.values, j) < det.threshold

\* no value after idx is below it, none is above it by the threshold or more
EndsAsTrough(idx) ==
    \A j \in After(idx) :
        /\ DetValueAt(det.values, j) >= DetValueAt(det.values, idx)
        /\ DetValueAt(det.values, j) - DetValueAt(det.values, idx) < det.threshold

\* C15 as stated: for a non-empty sequence and a threshold > 0 the output
\* starts at index 0 and ends at index len - 1.
C15_StartsAtZeroEndsAtLast ==
    Detected =>
        /\ det.committed[1] = 0
        /\ Last(det.committed) = Len(det.values) - 1

\* C15 amended: for a non-empty sequence and a threshold > 0 the output is a
\* non-empty sequence of indices of the input, and its last element is the
\* candidate the scan ended with: no later value lies beyond it and none
\* comes back from it by the threshold or more.  It is len - 1 only when
\* the last point is that candidate.
C15_EndsAtFinalCandidate ==
    Detected =>
        /\ Len(det.committed) >= 1
        /\ \A k \in 1 .. Len(det.committed) :
               det.committed[k] \in 0 .. Len(det.values) - 1
        /\ Last(det.committed) = det.candidate
        /\ EndsAsPeak(Last(det.committed)) \/ EndsAsTrough(Last(det.committed))

\* the output ends before the last index
C15_Witness ==
    /\ Detected
    /\ Len(det.committed) >= 2
    /\ Last(det.committed) < Len(det.values) - 1

\* C16: the output is strictly increasing, and every committed index other
\* than the first and the last differs in value from the committed index
\* before it by the threshold or more.
C16_IncreasingWithSwings ==
    Detected =>
        /\ \A k \in 2 .. Len(det.committed) :
               det.committed[k - 1] < det.committed[k]
        /\ \A k \in 2 .. Len(det.committed) - 1 :
               Abs(Committed(k) - Committed(k - 1)) >= det.threshold

\* the part of C16 that holds: the output is strictly increasing
C16_StrictlyIncreasing ==
    Detected =>
        \A k \in 2 .. Len(det.committed) :
            det.committed[k - 1] < det.committed[k]

\* C17: on the values [1, 2, 3, 0, 2, 1, 5, 3, 1] with threshold 1.5 the
\* output is exactly [2, 3, 6, 8].
C17_FirstTestCase ==
    (Detected /\ det.values = TestValues1 /\ det.threshold = TestThresh)
        => det.committed = <<2, 3, 6, 8>>

\* C18: on the values [3, 2, 1, 0, 1, 2, 1, 0.9, 0.8] with threshold 1.5
\* the output is exactly [0, 3, 5]: the final candidate, index 5, is
\* committed although the moves after it are smaller than the threshold.
C18_SecondTestCase ==
    (Detected /\ det.values = TestValues2 /\ det.threshold = TestThresh)
        => det.committed = <<0, 3, 5>>

\* the second case of the test returned
C18_Witness ==
    /\ Detected
    /\ det.values = TestValues2
    /\ det.threshold = TestThresh
    /\ det.candidate = 5
    /\ det.i = 9

\* C19: the call fails with InvalidThreshold when the threshold is <= 0 and
\* with EmptyInput when the sequence is empty (with either of the two when
\* both hold); it returns nothing then, and does not fail otherwise.
C19_InvalidArgumentsFail ==
    det.status \in {"scanning", "done", "failed"} =>
        /\ (det.threshold <= 0 /\ Len(det.values) > 0)
               => (det.status = "failed" /\ det.error = "InvalidThreshold")
        /\ (det.threshold > 0 /\ Len(det.values) = 0)
               => (det.status = "failed" /\ det.error = "EmptyInput")
        /\ (det.threshold <= 0 /\ Len(det.values) = 0)
               => (det.status = "failed"
                   /\ det.error \in {"InvalidThreshold", "EmptyInput"})
        /\ det.status = "failed" => det.committed = <<>>
        /\ (det.threshold > 0 /\ Len(det.values) > 0)
               => (det.status # "failed" /\ det.error = "none")

\* a call on an empty sequence with a valid threshold failed
C19_Witness ==
    /\ det.status = "failed"
    /\ det.error = "EmptyInput"
    /\ det.threshold > 0
    /\ Len(det.values) = 0

\* ------------------------------------------------------------------------
\* Vocabulary of the Signal Generators' properties
\* ------------------------------------------------------------------------

\* the 0-based indices of the input
LabIndices == 0 .. Len(lab.values) - 1

\* the indices whose trailing or leading window is incomplete
Incomplete ==
    {i \in LabIndices :
        \/ i < lab.window_size_before - 1
        \/ i > Len(lab.values) - lab.window_size_after}

\* some channel is true at index i of the output
Signalled(i) ==
    \/ lab.out[i + 1].long_entry
    \/ lab.out[i + 1].short_entry
    \/ lab.out[i + 1].long_exit
    \/ lab.out[i + 1].short_exit

\* C20: the SMA-difference generator never fails; its output has the length
\* of its input, and all four channels are false at every index whose
\* trailing window (window_size_before points ending at the index) or
\* leading window (window_size_after points from the index on) is
\* incomplete.
C20_NoSignalAtIncompleteWindows ==
    lab.status # "idle" =>
        /\ lab.status \in {"called", "done"}
        /\ \A i \in Incomplete : i < Len(lab.out) => ~Signalled(i)
        /\ lab.status = "done" => Len(lab.out) = Len(lab.values)

\* a returned frame with a signal inside and silent edges on both sides
C20_Witness ==
    /\ lab.status = "done"
    /\ lab.window_size_before > 1
    /\ lab.window_size_after > 1
    /\ \E i \in Incomplete : i < lab.window_size_before - 1
    /\ \E i \in Incomplete : i > Len(lab.values) - lab.window_size_after
    /\ \E i \in LabIndices \ Incomplete : Signalled(i)

\* the indices at which a channel of the output is true
FlaggedLongEntry == {i \in LabIndices : lab.out[i + 1].long_entry}
FlaggedShortEntry == {i \in LabIndices : lab.out[i + 1].short_entry}
FlaggedLongExit == {i \in LabIndices : lab.out[i + 1].long_exit}
FlaggedShortExit == {i \in LabIndices : lab.out[i + 1].short_exit}

\* the call is the first one of test_create_smadiff_labels and has returned
SmaDiffTestReturned ==
    /\ lab.status = "done"
    /\ lab.kind = "smadiff"
    /\ lab.values = TestSmaValues
    /\ lab.window_size_before = TestWindowBefore
    /\ lab.window_size_after = TestWindowAfter
    /\ lab.thresh_entry = TestThreshEntry
    /\ lab.thresh_hold = TestThreshHold

\* (leading average - trailing average) * before * after of the mid values,
\* both windows including index i
MidDiffScaled(i) ==
    DiffScaled(lab.values, i, lab.window_size_before, lab.window_size_after)

\* C21: with diff = leading SMA - trailing SMA, both windows including the
\* current index, the generator flags long_entry where diff > thresh_entry,
\* short_exit where diff > thresh_hold, short_entry where diff <
\* -thresh_entry and long_exit where diff < -thresh_hold; and on the input of
\* test_create_smadiff_labels this gives short_entry at {2, 5}, long_exit at
\* {2, 3, 4, 5} and nothing else.
C21_RuleYieldsTestLabels ==
    (lab.status = "done" /\ lab.kind = "smadiff") =>
        /\ \A i \in LabIndices \ Incomplete :
               LET scale == lab.window_size_before * lab.window_size_after
               IN  /\ lab.out[i + 1].long_entry
                       <=> MidDiffScaled(i) > lab.thresh_entry * scale
                   /\ lab.out[i + 1].short_exit
                       <=> MidDiffScaled(i) > lab.thresh_hold * scale
                   /\ lab.out[i + 1].short_entry
                       <=> MidDiffScaled(i) < -(lab.thresh_entry * scale)
                   /\ lab.out[i + 1].long_exit
                       <=> MidDiffScaled(i) < -(lab.thresh_hold * scale)
        /\ SmaDiffTestReturned =>
               /\ FlaggedLongEntry = {}
               /\ FlaggedShortEntry = {2, 5}
               /\ FlaggedLongExit = {2, 3, 4, 5}
               /\ FlaggedShortExit = {}

\* the part of C21 that holds: the four channels follow the rule
C21_ChannelsFollowRule ==
    (lab.status = "done" /\ lab.kind = "smadiff") =>
        \A i \in LabIndices \ Incomplete :
            LET scale == lab.window_size_before * lab.window_size_after
            IN  /\ lab.out[i + 1].long_entry
                    <=> MidDiffScaled(i) > lab.thresh_entry * scale
                /\ lab.out[i + 1].short_exit
                    <=> MidDiffScaled(i) > lab.thresh_hold * scale
                /\ lab.out[i + 1].short_entry
                    <=> MidDiffScaled(i) < -(lab.thresh_entry * scale)
                /\ lab.out[i + 1].long_exit
                    <=> MidDiffScaled(i) < -(lab.thresh_hold * scale)

\* what the rule gives on the input of the test
C21_RuleOnTestInput ==
    SmaDiffTestReturned =>
        /\ FlaggedLongEntry = {}
        /\ FlaggedShortEntry = {5}
        /\ FlaggedLongExit = {2, 3, 4, 5}
        /\ FlaggedShortExit = {1}

\* the span of a trigger at index i
Span(i) == i - lab.step_before .. i + lab.step_after

\* C22: in the output of the SMA-trend generator every index flagged
\* long_entry has short_exit true at every index of its span
\* [i - step_before, i + step_after], and every index flagged short_entry
\* has long_exit true over the same span.
C22_TriggerMarksWholeSpan ==
    (lab.status = "done" /\ lab.kind = "smatrend") =>
        \A i \in LabIndices :
            /\ lab.out[i + 1].long_entry =>
                   \A j \in Span(i) : j \in LabIndices /\ lab.out[j + 1].short_exit
            /\ lab.out[i + 1].short_entry =>
                   \A j \in Span(i) : j \in LabIndices /\ lab.out[j + 1].long_exit

\* a returned frame with one long_entry whose span of several bars is
\* marked short_exit, and a bar outside it that is not
C22_Witness ==
    /\ lab.status = "done"
    /\ lab.kind = "smatrend"
    /\ \E i \in LabIndices :
           /\ lab.out[i + 1].long_entry
           /\ \A k \in LabIndices \ {i} : ~lab.out[k + 1].long_entry
           /\ \E j \in LabIndices \ Span(i) : ~lab.out[j + 1].short_exit

\* C23: a step that closes the open position while is_open holds and an
\* entry flag is set opens a new position in the same call: LONG if
\* long_entry, else SHORT, entered at the closed Order's exit_time and
\* exit_rate, whether an exit flag or the loss-cut closed the old one; the
\* history has grown by that one Order and a position is open again.
C23_ReentryInClosingStep ==
    Stepped =>
        \A o \in pre.open_position :
            (/\ OwnExit(o)
             /\ InTradingWindow(CallDt)
             /\ (call.long_entry \/ call.short_entry))
            => /\ ClosedNow(o)
               /\ Len(order_history) = Len(pre.order_history) + 1
               /\ \E n \in open_position :
                      /\ open_position = {n}
                      /\ n.id \notin IdsBefore
                      /\ n.position_type =
                             (IF call.long_entry THEN LONG ELSE SHORT)
                      /\ Some(n.entry_time) = Last(order_history).exit_time
                      /\ Some(n.entry_rate) = Last(order_history).exit_rate
                      /\ n.exit_time = None
                      /\ n.exit_rate = None

\* the loss-cut alone closed a LONG inside the trading window, and the same
\* step opened a SHORT at the closing price
C23_Witness ==
    /\ Stepped
    /\ InTradingWindow(CallDt)
    /\ ~call.long_entry /\ call.short_entry
    /\ \E o \in pre.open_position :
           /\ o.position_type = LONG
           /\ ~OwnExitFlag(o)
           /\ LossAtCall(o) >= thresh_losscut
           /\ ClosedNow(o)
    /\ \E n \in open_position :
           n.position_type = SHORT /\ n.entry_rate = call.rate

\* the identities of the Orders of a history
HistoryIds(history) == {history[i].id : i \in 1 .. Len(history)}

\* C24: an Order's position_type, entry_time and entry_rate never change
\* after its creation; its exit fields are set once, by the step that
\* closes it; an Order of order_history is never modified again and never
\* becomes the open position again.
C24_OrdersImmutableOnceClosed ==
    /\ Stepped =>
        /\ Len(order_history) >= Len(pre.order_history)
        /\ \A i \in 1 .. Len(pre.order_history) :
               order_history[i] = pre.order_history[i]
        /\ \A o \in pre.open_position :
               /\ o.exit_time = None /\ o.exit_rate = None
               /\ \/ open_position = {o} /\ order_history = pre.order_history
                  \/ ClosedNow(o) /\ o.id \notin {n.id : n \in open_position}
        /\ pre.open_position = None => order_history = pre.order_history
    /\ \A o \in open_position : o.id \notin HistoryIds(order_history)
    /\ \A i, j \in 1 .. Len(order_history) :
           order_history[i].id = order_history[j].id => i = j
    /\ \A i \in 1 .. Len(order_history) :
           order_history[i].exit_time # None /\ order_history[i].exit_rate # None

\* a step closed a second Order and opened a third while the first Order,
\* closed by an earlier step, is in the history as it was
C24_Witness ==
    /\ Stepped
    /\ Len(pre.order_history) >= 1
    /\ Len(order_history) = Len(pre.order_history) + 1
    /\ order_history[1] = pre.order_history[1]
    /\ order_history[1].exit_time # Last(order_history).exit_time
    /\ Opened

\* C27: if thresh_losscut > 0, the position that is open when a step
\* returns has an unrealized loss at that step's price below thresh_losscut:
\* entry_rate - price for a LONG, price - entry_rate for a SHORT.
C27_NoPositionSurvivesLossCut ==
    (Stepped /\ thresh_losscut > 0) =>
        \A o \in open_position : LossAtCall(o) < thresh_losscut

\* a SHORT open before and after a step whose price left its loss one below
\* the threshold
C27_Witness ==
    /\ Stepped
    /\ thresh_losscut > 0
    /\ \E o \in open_position :
           /\ o.position_type = SHORT
           /\ o \in pre.open_position
           /\ LossAtCall(o) = thresh_losscut - 1

\* the step closed Order o: the history grew by one Order, o
ClosedBy(o) ==
    /\ Len(order_history) = Len(pre.order_history) + 1
    /\ Last(order_history).id = o.id

\* C28: an Order whose closing step had is_open true and the exit flag of
\* its own direction false was closed by the loss-cut; its gain is at most
\* -thresh_losscut and is the whole price difference of the closing step,
\* not capped at thresh_losscut.
C28_LossCutGainNotCapped ==
    Stepped =>
        \A o \in pre.open_position :
            (ClosedBy(o) /\ InTradingWindow(CallDt) /\ ~OwnExitFlag(o))
            => /\ LossAtCall(o) >= thresh_losscut
               /\ GainDefined(Last(order_history))
               /\ Gain(Last(order_history)) <= -thresh_losscut
               /\ Gain(Last(order_history)) = -LossAtCall(o)

\* the loss-cut closed a LONG at a loss beyond a positive threshold
C28_Witness ==
    /\ Stepped
    /\ thresh_losscut > 0
    /\ InTradingWindow(CallDt)
    /\ \E o \in pre.open_position :
           /\ o.position_type = LONG
           /\ ClosedBy(o)
           /\ ~OwnExitFlag(o)
           /\ Gain(Last(order_history)) < -thresh_losscut

\* C29: a simulator constructed with start_hour >= end_hour never opens a
\* position: is_open is false at every timestamp, so open_position stays
\* none and order_history stays empty whatever the calls.
C29_EmptyWindowNeverTrades ==
    start_hour >= end_hour =>
        /\ open_position = None
        /\ order_history = <<>>
        /\ next_id = 0
        /\ Stepped => ~InTradingWindow(CallDt)

\* two steps with an entry flag on a simulator with start_hour > end_hour,
\* the second at an hour not before start_hour
C29_Witness ==
    /\ start_hour > end_hour
    /\ Stepped
    /\ nsteps = 2
    /\ call.long_entry
    /\ CallDt.hour >= start_hour
    /\ open_position = None

\* C25: the committed extrema other than the first and the last alternate
\* in kind: at three consecutive committed indices a < b < c the value at b
\* is above both the value at a and the value at c, or below both.
C25_InteriorExtremaAlternate ==
    Detected =>
        \A k \in 2 .. Len(det.committed) - 1 :
            \/ Committed(k) > Committed(k - 1) /\ Committed(k) > Committed(k + 1)
            \/ Committed(k) < Committed(k - 1) /\ Committed(k) < Committed(k + 1)

\* an output with a committed peak and a committed trough between its first
\* and last entries
C25_Witness ==
    /\ Detected
    /\ Len(det.committed) >= 4
    /\ \E k \in 2 .. Len(det.committed) - 1 : Committed(k) > Committed(k - 1)
    /\ \E k \in 2 .. Len(det.committed) - 1 : Committed(k) < Committed(k - 1)

\* the scan is about to look at a point whose value is the candidate's
AtTie ==
    /\ det.status = "scanning"
    /\ det.i < Len(det.values)
    /\ DetValueAt(det.values, det.i) = DetValueAt(det.values, det.candidate)

\* all values of the input are equal
ConstantInput == \A k \in 1 .. Len(det.values) : det.values[k] = det.values[1]

\* C26: a point whose value equals the candidate's leaves the candidate
\* index, the direction and the committed indices unchanged, in the
\* directions unset, rising and falling; so the output never holds an index
\* whose predecessor has the same value, and a constant sequence commits
\* index 0 only.
C26_TiesChangeNothing ==
    /\ [][AtTie => /\ det'.candidate = det.candidate
                   /\ det'.direction = det.direction
                   /\ det'.committed = det.committed
                   /\ det'.status = "scanning"]_vars
    /\ [](Detected =>
            /\ \A k \in 1 .. Len(det.committed) :
                   det.committed[k] > 0 =>
                       DetValueAt(det.values, det.committed[k])
                           # DetValueAt(det.values, det.committed[k] - 1)
            /\ ConstantInput => det.committed = <<0>>)

\* an output holding the first index of a plateau that is an extremum
C26_Witness ==
    /\ Detected
    /\ \E k \in 2 .. Len(det.committed) - 1 :
           LET c == det.committed[k]
           IN  /\ c + 1 < Len(det.values)
               /\ DetValueAt(det.values, c + 1) = DetValueAt(det.values, c)
               /\ c + 1 # det.committed[k + 1]

\* ------------------------------------------------------------------------
\* Vocabulary of the loader's properties
\* ------------------------------------------------------------------------

\* the batches yielded so far, concatenated
RECURSIVE Concat(_)
Concat(batches) ==
    IF batches = <<>> THEN <<>>
    ELSE Concat(SubSeq(batches, 1, Len(batches) - 1)) \o batches[Len(batches)]

\* ceil(n / batch_size)
CeilDiv(n, batch_size) == (n + batch_size - 1) \div batch_size

\* a call with randomize=False and batch_size >= 1
InOrderCall == ldr.status # "idle" /\ ~ldr.randomize /\ ldr.batch_size >= 1

\* every entry has the rows the loop reads
AllRowsPresent ==
    \A k \in 1 .. Len(ldr.kinds) :
        BatchError(ldr, <<k>>) = "none"

\* the generator ended having yielded base_index in whole batches
YieldedWholeIndex ==
    /\ Len(ldr.batches) = CeilDiv(Len(ldr.base_index), ldr.batch_size)
    /\ \A b \in 1 .. Len(ldr.batches) :
           Len(ldr.batches[b]) <= ldr.batch_size
    /\ Concat(ldr.batches) = ldr.base_index

\* C30 as stated: with randomize=False and batch_size >= 1 the loader
\* terminates after yielding ceil(n / batch_size) batches of at most
\* batch_size entries each, which concatenated are base_index; it does not
\* end in any other way.
C30_LoaderYieldsWholeIndex ==
    /\ [](InOrderCall => ldr.status # "failed")
    /\ <>(InOrderCall => ldr.status = "done")
    /\ []((InOrderCall /\ ldr.status = "done") => YieldedWholeIndex)

\* C30 amended: the same, for a dataset in which every entry of base_index
\* has its rows (lag_max earlier rows in every sequential frame and, when y
\* is given, a row in y); on any other dataset the loader stops with the
\* exception of the first batch that holds an entry without them, having
\* yielded the batches before it.
C30_LoaderYieldsWholeIndexIfRowsPresent ==
    /\ <>(InOrderCall => ldr.status \in {"done", "failed"})
    /\ []((InOrderCall /\ ldr.status = "done")
              => (AllRowsPresent /\ YieldedWholeIndex))
    /\ []((InOrderCall /\ ldr.status = "failed")
              => /\ ~AllRowsPresent
                 /\ ldr.error \in {"AssertionError", "KeyError"}
                 /\ Concat(ldr.batches)
                        = SubSeq(ldr.base_index, 1, ldr.done_count)
                 /\ BatchError(ldr, IndexBatch(ldr)) = ldr.error
                 /\ \A k \in 1 .. ldr.done_count :
                        BatchError(ldr, <<k>>) = "none")

\* a loader in order ended after several batches, the last one not full
C30_Witness ==
    /\ InOrderCall
    /\ ldr.status = "done"
    /\ Len(ldr.batches) >= 2
    /\ Len(ldr.batches[Len(ldr.batches)]) < ldr.batch_size
    /\ Concat(ldr.batches) = ldr.base_index

====
